---------------------------- MODULE Spec2Model ----------------------------
(* Model of the Audio Classification Annotator (src/main.py): the session  *)
(* state held in gr.State and in the output components, the persisted      *)
(* table annotations.csv as the text the csv module writes and reads, and   *)
(* one action per click handler.                                            *)
(*                                                                          *)
(* Strings are sequences of one-character strings, so that join, split,    *)
(* strip, basename, endswith and the CSV quoting are computed and not      *)
(* assumed.  "CR", "LF" and "DQ" stand for the carriage return, the line    *)
(* feed and the double quote.  Python's None is the empty tuple Null and a *)
(* present value v is the one-element tuple <<v>>.                          *)
(*                                                                          *)
(* Five specifications share the handlers and differ in what the session   *)
(* starts from: Spec (no table, or a well-formed one left by an earlier     *)
(* session), SpecMalformed (a badly shaped or unreadable table),            *)
(* SpecHistory (as Spec, and the file of the last successful Save is        *)
(* remembered), SpecOddNames (as Spec, with a file name that holds a        *)
(* carriage return), SpecFilePath (as Spec, with a regular file where the   *)
(* directory /q was).  A sixth, SpecTwoSessions, interleaves the Loads,     *)
(* Saves and Nexts of two sessions that share annotations.csv.              *)
(*                                                                          *)
(* Left out: the outputs file_display and label_preview, which only echo    *)
(* the file name and the selection, and the label vocabulary (the choices   *)
(* of the checkbox group); a selection is any list of label strings.        *)
EXTENDS Integers, Sequences, FiniteSets, TLC

-----------------------------------------------------------------------------
(* Bounds of the model *)

\* how many of the entries of SelectionList the user can tick
NumSelections == 1
\* how many of the entries of PathList can be typed into the directory box
NumPaths == 3

-----------------------------------------------------------------------------
(* Python values and string helpers *)

Null == <<>>
Some(v) == <<v>>
Val(o) == o[1]

OUTPUT_CSV_FIELDS == << <<"f","i","l","e","n","a","m","e">>, <<"l","a","b","e","l","s">> >>
K_filename == OUTPUT_CSV_FIELDS[1]
K_labels == OUTPUT_CSV_FIELDS[2]

AUDIO_EXTENSIONS ==
  { <<".","w","a","v">>, <<".","m","p","3">>, <<".","f","l","a","c">>,
    <<".","o","g","g">>, <<".","m","4","a">> }

\* code points of the characters the model uses (order of sorted())
CharCode(c) ==
  CASE c = "LF" -> 10 [] c = "CR" -> 13 [] c = " " -> 32 [] c = "DQ" -> 34 [] c = "," -> 44 [] c = "." -> 46 [] c = "/" -> 47
    [] c = "3" -> 51 [] c = "4" -> 52
    [] c = "A" -> 65 [] c = "B" -> 66 [] c = "H" -> 72 [] c = "S" -> 83
    [] c = "V" -> 86 [] c = "W" -> 87
    [] c = "a" -> 97 [] c = "b" -> 98 [] c = "c" -> 99 [] c = "d" -> 100
    [] c = "e" -> 101 [] c = "f" -> 102 [] c = "g" -> 103 [] c = "i" -> 105
    [] c = "l" -> 108 [] c = "m" -> 109 [] c = "n" -> 110 [] c = "o" -> 111
    [] c = "p" -> 112 [] c = "q" -> 113 [] c = "s" -> 115 [] c = "t" -> 116
    [] c = "v" -> 118 [] c = "w" -> 119 [] c = "x" -> 120
    [] OTHER -> 0

\* str.lower() on one character
LowerChar(c) ==
  CASE c = "A" -> "a" [] c = "B" -> "b" [] c = "H" -> "h" [] c = "S" -> "s"
    [] c = "V" -> "v" [] c = "W" -> "w" [] OTHER -> c

Lower(s) == [i \in 1..Len(s) |-> LowerChar(s[i])]

EndsWith(s, suffix) ==
  /\ Len(suffix) <= Len(s)
  /\ SubSeq(s, Len(s) - Len(suffix) + 1, Len(s)) = suffix

\* s < t in Python's string order
RECURSIVE StrLess(_, _)
StrLess(s, t) ==
  IF t = <<>> THEN FALSE
  ELSE IF s = <<>> THEN TRUE
  ELSE IF CharCode(Head(s)) # CharCode(Head(t)) THEN CharCode(Head(s)) < CharCode(Head(t))
  ELSE StrLess(Tail(s), Tail(t))

\* sorted(S) for a set of distinct strings
RECURSIVE Sorted(_)
Sorted(S) ==
  IF S = {} THEN <<>>
  ELSE LET m == CHOOSE x \in S : \A y \in S \ {x} : StrLess(x, y)
       IN  <<m>> \o Sorted(S \ {m})

IsSpace(c) == c \in {" ", "CR", "LF"}

\* str.strip()
RECURSIVE LStrip(_)
LStrip(s) == IF s # <<>> /\ IsSpace(Head(s)) THEN LStrip(Tail(s)) ELSE s

RECURSIVE RStrip(_)
RStrip(s) ==
  IF s # <<>> /\ IsSpace(s[Len(s)]) THEN RStrip(SubSeq(s, 1, Len(s) - 1)) ELSE s

Strip(s) == RStrip(LStrip(s))

\* sep.join(parts)
RECURSIVE Join(_, _)
Join(sep, parts) ==
  IF parts = <<>> THEN <<>>
  ELSE IF Len(parts) = 1 THEN parts[1]
  ELSE parts[1] \o sep \o Join(sep, Tail(parts))

\* s.split(c) for a one-character separator
RECURSIVE SplitAcc(_, _, _)
SplitAcc(s, c, cur) ==
  IF s = <<>> THEN <<cur>>
  ELSE IF Head(s) = c THEN <<cur>> \o SplitAcc(Tail(s), c, <<>>)
  ELSE SplitAcc(Tail(s), c, Append(cur, Head(s)))

Split(s, c) == SplitAcc(s, c, <<>>)

\* [l.strip() for l in text.split(',') if l.strip()]
RECURSIVE StripNonEmpty(_)
StripNonEmpty(parts) ==
  IF parts = <<>> THEN <<>>
  ELSE IF Strip(Head(parts)) # <<>>
       THEN <<Strip(Head(parts))>> \o StripNonEmpty(Tail(parts))
       ELSE StripNonEmpty(Tail(parts))

split_labels(text) == StripNonEmpty(Split(text, ","))

\* ", ".join(labels) if labels else ""
join_labels(labels) == IF labels # <<>> THEN Join(<<",", " ">>, labels) ELSE <<>>

\* os.path.join(path, f)
path_join(path, f) ==
  IF path # <<>> /\ path[Len(path)] = "/" THEN path \o f ELSE path \o <<"/">> \o f

\* os.path.basename(p): what follows the last "/"
RECURSIVE basename(_)
basename(p) ==
  IF \E i \in 1..Len(p) : p[i] = "/" THEN basename(Tail(p)) ELSE p

-----------------------------------------------------------------------------
(* The csv module as main.py uses it: the excel dialect, QUOTE_MINIMAL *)

HasSpecial(s) == \E i \in 1..Len(s) : s[i] \in {",", "DQ", "CR", "LF"}

RECURSIVE DoubleQuotes(_)
DoubleQuotes(s) ==
  IF s = <<>> THEN <<>>
  ELSE IF Head(s) = "DQ" THEN <<"DQ", "DQ">> \o DoubleQuotes(Tail(s))
  ELSE <<Head(s)>> \o DoubleQuotes(Tail(s))

\* one field as csv.writer emits it
csv_field(s) ==
  IF HasSpecial(s) THEN <<"DQ">> \o DoubleQuotes(s) \o <<"DQ">> ELSE s

\* csv.writer.writerow(fields): the line, with its "\r\n" terminator
csv_writerow(fields) ==
  IF fields = << <<>> >> THEN <<"DQ", "DQ", "CR", "LF">>
  ELSE Join(<<",">>, [i \in 1..Len(fields) |-> csv_field(fields[i])]) \o <<"CR", "LF">>

\* open(..., 'r') without newline='': "\r\n" and "\r" are read as "\n"
universal_newlines(text) ==
  LET kept == SelectSeq([i \in 1..Len(text) |-> i],
                        LAMBDA i : ~(text[i] = "LF" /\ i > 1 /\ text[i - 1] = "CR"))
  IN  [k \in 1..Len(kept) |-> IF text[kept[k]] = "CR" THEN "LF" ELSE text[kept[k]]]

\* csv.reader over the text: the parser's state machine, one character a step.
\* A blank line yields the empty row <<>>.
RECURSIVE csv_parse(_, _, _, _, _)
csv_parse(text, state, field, row, rows) ==
  IF text = <<>> THEN
    CASE state = "START_RECORD" -> rows
      [] state = "START_FIELD" -> Append(rows, Append(row, <<>>))
      [] OTHER -> Append(rows, Append(row, field))
  ELSE
    LET c == Head(text)
        rest == Tail(text)
    IN
    CASE state = "START_RECORD" /\ c = "LF" ->
           csv_parse(rest, "START_RECORD", <<>>, <<>>, Append(rows, <<>>))
      [] state \in {"START_RECORD", "START_FIELD"} /\ ~(state = "START_RECORD" /\ c = "LF") ->
           IF c = "LF" THEN csv_parse(rest, "START_RECORD", <<>>, <<>>, Append(rows, Append(row, <<>>)))
           ELSE IF c = "DQ" THEN csv_parse(rest, "IN_QUOTED_FIELD", <<>>, row, rows)
           ELSE IF c = "," THEN csv_parse(rest, "START_FIELD", <<>>, Append(row, <<>>), rows)
           ELSE csv_parse(rest, "IN_FIELD", <<c>>, row, rows)
      [] state = "IN_FIELD" ->
           IF c = "LF" THEN csv_parse(rest, "START_RECORD", <<>>, <<>>, Append(rows, Append(row, field)))
           ELSE IF c = "," THEN csv_parse(rest, "START_FIELD", <<>>, Append(row, field), rows)
           ELSE csv_parse(rest, "IN_FIELD", Append(field, c), row, rows)
      [] state = "IN_QUOTED_FIELD" ->
           IF c = "DQ" THEN csv_parse(rest, "QUOTE_IN_QUOTED_FIELD", field, row, rows)
           ELSE csv_parse(rest, "IN_QUOTED_FIELD", Append(field, c), row, rows)
      [] OTHER ->
           IF c = "DQ" THEN csv_parse(rest, "IN_QUOTED_FIELD", Append(field, "DQ"), row, rows)
           ELSE IF c = "," THEN csv_parse(rest, "START_FIELD", <<>>, Append(row, field), rows)
           ELSE IF c = "LF" THEN csv_parse(rest, "START_RECORD", <<>>, <<>>, Append(rows, Append(row, field)))
           ELSE csv_parse(rest, "IN_FIELD", Append(field, c), row, rows)

csv_reader(text) == csv_parse(universal_newlines(text), "START_RECORD", <<>>, <<>>, <<>>)

\* A Python dict read from or written to the table: the keys it has ("other"
\* stands for any key that is not a column of the table, such as DictReader's
\* restkey None) and the values under "filename" and "labels" (Null is None).
MakeDict(keys, filename, labels) == [keys |-> keys, filename |-> filename, labels |-> labels]

LastIndexOf(fieldnames, k) ==
  IF \E i \in 1..Len(fieldnames) : fieldnames[i] = k
  THEN CHOOSE i \in 1..Len(fieldnames) :
         fieldnames[i] = k /\ \A j \in (i+1)..Len(fieldnames) : fieldnames[j] # k
  ELSE 0

\* csv.DictReader's row: dict(zip(fieldnames, row)), the surplus fields under
\* restkey None, the missing ones set to restval None
DictReader_row(fieldnames, row) ==
  LET value(k) == LET i == LastIndexOf(fieldnames, k)
                  IN  IF i >= 1 /\ i <= Len(row) THEN Some(row[i]) ELSE Null
  IN MakeDict(
       (IF LastIndexOf(fieldnames, K_filename) > 0 THEN {"filename"} ELSE {})
         \cup (IF LastIndexOf(fieldnames, K_labels) > 0 THEN {"labels"} ELSE {})
         \cup (IF Len(row) > Len(fieldnames)
                  \/ \E i \in 1..Len(fieldnames) : fieldnames[i] \notin {K_filename, K_labels}
               THEN {"other"} ELSE {}),
       value(K_filename), value(K_labels))

\* csv.DictReader(f): the first row is the header, blank rows are skipped
DictReader(text) ==
  LET rows == csv_reader(text)
  IN  IF rows = <<>> THEN <<>>
      ELSE LET data == SelectSeq(Tail(rows), LAMBDA r : r # <<>>)
           IN  [i \in 1..Len(data) |-> DictReader_row(rows[1], data[i])]

\* csv.DictWriter(fieldnames=["filename","labels"]).writerow(entry): a key
\* outside fieldnames raises ValueError; a missing key and None are written ''
DictWriter_raises(entry) == "other" \in entry.keys

DictWriter_row(entry) ==
  LET text(k, v) == IF k \in entry.keys /\ v # Null THEN Val(v) ELSE <<>>
  IN  csv_writerow(<<text("filename", entry.filename), text("labels", entry.labels)>>)

\* a faulty test that also wants labels, `if entry and entry["labels"]`.
\* SaveWithEmptySelection must reject it.
Truthy_and_labelled(entry) ==
  entry # Null /\ Val(entry).keys # {} /\ Val(entry).labels \notin {Null, Some(<<>>)}

\* `if entry:` a slot is written, counted and listed when it is not None (and
\* not an empty dict)
Truthy(entry) == entry # Null /\ Val(entry).keys # {}

\* a faulty loop that writes a row for every slot, `writerow(entry or {})`: an
\* empty slot becomes a row of two empty fields.  PersistedTableReflectsSlots
\* must reject it.
RECURSIVE write_rows_every_slot(_)
write_rows_every_slot(ann) ==
  IF ann = <<>> THEN [text |-> <<>>, raised |-> FALSE]
  ELSE IF ~Truthy(Head(ann))
  THEN LET r == write_rows_every_slot(Tail(ann))
       IN  [text |-> csv_writerow(<< <<>>, <<>> >>) \o r.text, raised |-> r.raised]
  ELSE IF DictWriter_raises(Val(Head(ann))) THEN [text |-> <<>>, raised |-> TRUE]
  ELSE LET r == write_rows_every_slot(Tail(ann))
       IN  [text |-> DictWriter_row(Val(Head(ann))) \o r.text, raised |-> r.raised]

\* writeheader() and the loop `for entry in annotations: if entry: writerow`
\* (main.py 54-58, 174-178, 191-195): the text written, up to the first entry
\* that raises, and whether one did
RECURSIVE write_rows(_)
write_rows(ann) ==
  IF ann = <<>> THEN [text |-> <<>>, raised |-> FALSE]
  ELSE IF ~Truthy(Head(ann)) THEN write_rows(Tail(ann))
  ELSE IF DictWriter_raises(Val(Head(ann))) THEN [text |-> <<>>, raised |-> TRUE]
  ELSE LET r == write_rows(Tail(ann))
       IN  [text |-> DictWriter_row(Val(Head(ann))) \o r.text, raised |-> r.raised]

write_table(ann) ==
  LET r == write_rows(ann)
  IN  [text |-> csv_writerow(OUTPUT_CSV_FIELDS) \o r.text, raised |-> r.raised]

-----------------------------------------------------------------------------
(* The environment: the directories a path can name, the label selections  *)
(* the user can tick, the outcomes of writing annotations.csv               *)

N_a_wav == <<"a", ".", "w", "a", "v">>
N_B_WAV == <<"B", ".", "W", "A", "V">>
N_c_mp3 == <<"c", ".", "m", "p", "3">>
N_n_txt == <<"n", ".", "t", "x", "t">>

\* a file name that holds a carriage return, as POSIX file systems allow
N_a_cr_wav == <<"a", "CR", ".", "w", "a", "v">>

P_p == <<"/", "p">>
P_q == <<"/", "q">>

VARIABLE
  disk               \* the file system: for each path that exists, whether it is
                     \* a directory and the names in it

DiskEntry(dir, names) == [dir |-> dir, names |-> names]

\* the directories /p and /q, with plain file names
PlainDisk == [d \in {P_p, P_q} |-> IF d = P_p THEN DiskEntry(TRUE, {N_a_wav, N_B_WAV, N_n_txt})
                                               ELSE DiskEntry(TRUE, {N_a_wav, N_n_txt})]

\* the same directories when the file a.wav is named with a carriage return
OddDisk == [d \in {P_p, P_q} |-> IF d = P_p THEN DiskEntry(TRUE, {N_a_cr_wav, N_B_WAV, N_n_txt})
                                             ELSE DiskEntry(TRUE, {N_a_cr_wav, N_n_txt})]

\* the directory /p beside a regular file /q
FileDisk == [d \in {P_p, P_q} |-> IF d = P_p THEN DiskEntry(TRUE, {N_a_wav, N_B_WAV, N_n_txt})
                                              ELSE DiskEntry(FALSE, {})]

\* os.path.exists: the paths of the disk exist and nothing else does
fs_exists(path) == path \in DOMAIN disk

fs_isdir(path) == disk[path].dir

\* os.listdir of a directory
fs_listdir(path) == disk[path].names

\* what can be typed into the directory box
PathList == << P_p, <<" ">> \o P_q \o <<" ">>, <<>>, <<"/", "x">> >>
Paths == {PathList[i] : i \in 1..(IF NumPaths < Len(PathList) THEN NumPaths ELSE Len(PathList))}

\* the label selections the user can tick (besides the empty one the session
\* starts with): one label that holds a comma, two labels, a label with a
\* leading blank, the same label twice
SelectionList ==
  << << <<"H", ",", "S">> >>,
     << <<"H">>, <<"S">> >>,
     << <<" ", "H">> >>,
     << <<"H">>, <<"H">> >> >>
Selections ==
  {SelectionList[i] : i \in 1..(IF NumSelections < Len(SelectionList) THEN NumSelections ELSE Len(SelectionList))}

\* open(OUTPUT_CSV, 'w') and the writes under it: they succeed, or open raises
\* (the file is left as it was), or the file is truncated and the rows do not
\* reach it
IoOutcomes == {"ok", "open_failed", "write_failed"}

\* annotations.csv: whether it exists, whether it decodes as UTF-8, its text
CsvFile(exists, readable, text) == [exists |-> exists, readable |-> readable, text |-> text]
NoCsvFile == CsvFile(FALSE, FALSE, <<>>)

-----------------------------------------------------------------------------
(* The functions of main.py *)

\* a value shown in a status textbox
Status(kind, name, pos, total) == [kind |-> kind, name |-> name, pos |-> pos, total |-> total]

\* os.listdir(path) of load_directory raises NotADirectoryError when the path
\* exists and is no directory
load_directory_raises(path) == path # <<>> /\ fs_exists(path) /\ ~fs_isdir(path)

\* load_directory(path), when it returns
load_directory(path) ==
  IF path = <<>> \/ ~fs_exists(path) THEN <<>>
  ELSE Sorted({path_join(path, f) : f \in
         {g \in fs_listdir(path) : LET low == Lower(g)
                                   IN  \E ext \in AUDIO_EXTENSIONS : EndsWith(low, ext)}})

\* a faulty navigate_files that wraps around where the code clamps,
\* (current_index + direction) % len(file_list).  NavigationSaturates must
\* reject it.
navigate_files_wraps(direction, current_index, file_list) ==
  IF file_list = <<>>
  THEN [new_index |-> 0, current_file |-> Null,
        status |-> Status("No files loaded", <<>>, 0, 0), filename |-> <<>>]
  ELSE LET new_index == (current_index + direction) % Len(file_list)
       IN  [new_index |-> new_index,
            current_file |-> Some(file_list[new_index + 1]),
            status |-> Status("File", <<>>, new_index + 1, Len(file_list)),
            filename |-> basename(file_list[new_index + 1])]

\* navigate_files(direction, current_index, file_list)
navigate_files(direction, current_index, file_list) ==
  IF file_list = <<>>
  THEN [new_index |-> 0, current_file |-> Null,
        status |-> Status("No files loaded", <<>>, 0, 0), filename |-> <<>>]
  ELSE LET hi == Len(file_list) - 1
           moved == current_index + direction
           capped == IF moved < hi THEN moved ELSE hi
           new_index == IF capped > 0 THEN capped ELSE 0
       IN  [new_index |-> new_index,
            current_file |-> Some(file_list[new_index + 1]),
            status |-> Status("File", <<>>, new_index + 1, Len(file_list)),
            filename |-> basename(file_list[new_index + 1])]

\* a faulty write block that opens the file with mode 'a' and so keeps the
\* rows it finds.  SessionsOverwriteEachOther must reject it.
persist_appends(ann, io, file) ==
  CASE io = "open_failed" -> [file |-> file, ok |-> FALSE]
    [] io = "write_failed" -> [file |-> CsvFile(TRUE, TRUE, <<>>), ok |-> FALSE]
    [] OTHER -> LET w == write_table(ann)
                IN  [file |-> CsvFile(TRUE, TRUE, file.text \o w.text), ok |-> ~w.raised]

\* the `with open(OUTPUT_CSV, 'w')` block of save_annotation, delete_annotation
\* and export_annotations, under the outcome io: the file afterwards and
\* whether the block ended without an exception
persist(ann, io, file) ==
  CASE io = "open_failed" -> [file |-> file, ok |-> FALSE]
    [] io = "write_failed" -> [file |-> CsvFile(TRUE, TRUE, <<>>), ok |-> FALSE]
    [] OTHER -> LET w == write_table(ann)
                IN  [file |-> CsvFile(TRUE, TRUE, w.text), ok |-> ~w.raised]

\* a faulty save_annotation that hands back the slots it was given when the
\* write fails, `except: return status, original`.  WriteFailureKeepsMutation
\* must reject it.
save_annotation_rolls_back(current_index, file_list, labels, annotations, io, file) ==
  IF file_list = <<>> \/ current_index >= Len(file_list)
  THEN [exc |-> "", status |-> Status("No file to save", <<>>, 0, 0),
        annotations |-> annotations, file |-> file, io |-> "none"]
  ELSE IF current_index >= Len(annotations)
  THEN [exc |-> "IndexError", status |-> Status("", <<>>, 0, 0),
        annotations |-> annotations, file |-> file, io |-> "none"]
  ELSE LET filename == basename(file_list[current_index + 1])
           updated == [annotations EXCEPT ![current_index + 1] =
                         Some(MakeDict({"filename", "labels"}, Some(filename), Some(join_labels(labels))))]
           w == persist(updated, io, file)
       IN  [exc |-> "",
            status |-> IF w.ok THEN Status("Saved", filename, 0, 0)
                       ELSE Status("Error saving", <<>>, 0, 0),
            annotations |-> IF w.ok THEN updated ELSE annotations, file |-> w.file,
            io |-> IF w.ok THEN "ok" ELSE IF io = "ok" THEN "ValueError" ELSE io]

\* save_annotation(current_index, file_list, labels, annotations)
save_annotation(current_index, file_list, labels, annotations, io, file) ==
  IF file_list = <<>> \/ current_index >= Len(file_list)
  THEN [exc |-> "", status |-> Status("No file to save", <<>>, 0, 0),
        annotations |-> annotations, file |-> file, io |-> "none"]
  ELSE IF current_index >= Len(annotations)
  THEN [exc |-> "IndexError", status |-> Status("", <<>>, 0, 0),
        annotations |-> annotations, file |-> file, io |-> "none"]
  ELSE LET filename == basename(file_list[current_index + 1])
           updated == [annotations EXCEPT ![current_index + 1] =
                         Some(MakeDict({"filename", "labels"}, Some(filename), Some(join_labels(labels))))]
           w == persist(updated, io, file)
       IN  [exc |-> "",
            status |-> IF w.ok THEN Status("Saved", filename, 0, 0)
                       ELSE Status("Error saving", <<>>, 0, 0),
            annotations |-> updated, file |-> w.file,
            io |-> IF w.ok THEN "ok" ELSE IF io = "ok" THEN "ValueError" ELSE io]

\* '{:.1f}' of 100 * annotated / total, in tenths of a percent
PercentTenths(annotated, total) ==
  LET q == (1000 * annotated) \div total
      r == (1000 * annotated) % total
  IN  IF 2 * r > total THEN q + 1
      ELSE IF 2 * r = total THEN q + (q % 2)
      ELSE q

RECURSIVE CountTruthy(_)
CountTruthy(ann) ==
  IF ann = <<>> THEN 0
  ELSE (IF Truthy(Head(ann)) THEN 1 ELSE 0) + CountTruthy(Tail(ann))

\* a faulty get_annotation_status that calls an empty corpus done,
\* `return "No files loaded", 1`.  ProgressWellDefined must reject it.
get_annotation_status_empty_is_done(annotations) ==
  LET total == Len(annotations)
      annotated == CountTruthy(annotations)
  IN  IF total = 0
      THEN [txt |-> [kind |-> "No files loaded", annotated |-> 0, total |-> 0, tenths |-> 0],
            val |-> <<1, 1>>]
      ELSE [txt |-> [kind |-> "Progress", annotated |-> annotated, total |-> total,
                     tenths |-> PercentTenths(annotated, total)],
            val |-> <<annotated, total>>]

\* get_annotation_status(annotations): the progress text and the fraction, kept
\* as the pair <<annotated, total>> (<<0, 1>> is the 0 of an empty corpus)
get_annotation_status(annotations) ==
  LET total == Len(annotations)
      annotated == CountTruthy(annotations)
  IN  IF total = 0
      THEN [txt |-> [kind |-> "No files loaded", annotated |-> 0, total |-> 0, tenths |-> 0],
            val |-> <<0, 1>>]
      ELSE [txt |-> [kind |-> "Progress", annotated |-> annotated, total |-> total,
                     tenths |-> PercentTenths(annotated, total)],
            val |-> <<annotated, total>>]

\* load_existing_annotations(): the mapping from row['filename'] to the row.
\* An exception (the file does not decode, a row has no 'filename' key) ends
\* the loop and what was read before it is returned.
RECURSIVE existing_from_rows(_, _)
existing_from_rows(rows, existing) ==
  IF rows = <<>> THEN existing
  ELSE IF "filename" \notin Head(rows).keys THEN existing
  ELSE existing_from_rows(Tail(rows),
         [k \in DOMAIN existing \cup {Head(rows).filename} |->
            IF k = Head(rows).filename THEN Head(rows) ELSE existing[k]])

load_existing_annotations(file) ==
  IF ~file.exists \/ ~file.readable THEN <<>>
  ELSE existing_from_rows(DictReader(file.text), <<>>)

\* a faulty init_annotations that hands out the rows by position, in the order
\* of their filenames, and never looks a filename up.  LoadMergesByFilename
\* must reject it.
init_annotations_by_position(file_list, existing_files) ==
  LET names == Sorted({Val(k) : k \in DOMAIN existing_files})
  IN  [i \in 1..Len(file_list) |->
         IF i <= Len(names) THEN Some(existing_files[Some(names[i])]) ELSE Null]

\* init_annotations(file_list, existing_files)
init_annotations(file_list, existing_files) ==
  [i \in 1..Len(file_list) |->
     IF Some(basename(file_list[i])) \in DOMAIN existing_files
     THEN Some(existing_files[Some(basename(file_list[i]))])
     ELSE Null]

\* get_annotations_table(annotations): a["filename"] or a["labels"] of a row
\* without that key raises KeyError
get_annotations_table(annotations) ==
  LET kept == SelectSeq(annotations, Truthy)
  IN  IF \E i \in 1..Len(kept) : ~({"filename", "labels"} \subseteq Val(kept[i]).keys)
      THEN [exc |-> "KeyError", rows |-> <<>>]
      ELSE [exc |-> "", rows |-> [i \in 1..Len(kept) |-> <<Val(kept[i]).filename, Val(kept[i]).labels>>]]

\* the table component: the rows it shows, or a text put in their place
TableView(kind, rows) == [kind |-> kind, rows |-> rows]

\* `[l.strip() for l in entry['labels'].split(',') if l.strip()]` of handle_load
\* and navigate: KeyError without the key, AttributeError on None
selected_labels_of(entry) ==
  IF "labels" \notin Val(entry).keys THEN [exc |-> "KeyError", labels |-> <<>>]
  ELSE IF Val(entry).labels = Null THEN [exc |-> "AttributeError", labels |-> <<>>]
  ELSE [exc |-> "", labels |-> split_labels(Val(Val(entry).labels))]

OUTPUT_CSV == <<"annotations.csv">>

NoProgress == [kind |-> "", annotated |-> 0, total |-> 0, tenths |-> 0]

\* handle_load(dir_path): the nine outputs, or the exception that escapes
handle_load(dir_path, file) ==
  LET path == IF dir_path # <<>> THEN Strip(dir_path) ELSE <<>>
      files == load_directory(path)
      raise(e) == [exc |-> e, files |-> <<>>, index |-> 0, annots |-> <<>>, audio |-> Null,
                   status |-> Status("", <<>>, 0, 0), progress_txt |-> NoProgress,
                   progress_val |-> <<0, 1>>, table |-> <<>>]
  IN  IF load_directory_raises(path) THEN raise("NotADirectoryError")
      ELSE IF files = <<>>
      THEN [exc |-> "", files |-> <<>>, index |-> 0, annots |-> <<>>, audio |-> Null,
            status |-> Status("No files found", <<>>, 0, 0),
            progress_txt |-> [kind |-> "No files loaded", annotated |-> 0, total |-> 0, tenths |-> 0],
            progress_val |-> <<0, 1>>, table |-> <<>>]
      ELSE LET existing == load_existing_annotations(file)
               annots == init_annotations(files, existing)
               nav == navigate_files(0, 0, files)
               sel == IF annots # <<>> /\ Truthy(annots[1]) THEN selected_labels_of(annots[1])
                      ELSE [exc |-> "", labels |-> <<>>]
               progress == get_annotation_status(annots)
               table == get_annotations_table(annots)
           IN  IF sel.exc # "" THEN raise(sel.exc)
               ELSE IF table.exc # "" THEN raise(table.exc)
               ELSE [exc |-> "", files |-> files, index |-> nav.new_index, annots |-> annots,
                     audio |-> nav.current_file, status |-> nav.status,
                     progress_txt |-> progress.txt, progress_val |-> progress.val,
                     table |-> table.rows]

\* save_labels(labels, idx, files, ann)
save_labels(labels, idx, files, ann, io, file) ==
  LET r == save_annotation(idx, files, labels, ann, io, file)
      progress == get_annotation_status(r.annotations)
      table == get_annotations_table(r.annotations)
  IN  [exc |-> IF r.exc # "" THEN r.exc ELSE table.exc,
       updated_ann |-> r.annotations, status |-> r.status,
       progress_txt |-> progress.txt, progress_val |-> progress.val,
       table |-> table.rows, file |-> r.file, io |-> r.io]

\* navigate(direction, curr_idx, files, ann)
navigate(direction, curr_idx, files, ann) ==
  LET nav == navigate_files(direction, curr_idx, files)
      sel == IF ann # <<>> /\ Len(ann) > nav.new_index /\ Truthy(ann[nav.new_index + 1])
             THEN selected_labels_of(ann[nav.new_index + 1])
             ELSE [exc |-> "", labels |-> <<>>]
  IN  [exc |-> sel.exc, new_idx |-> nav.new_index, audio_file |-> nav.current_file,
       status |-> nav.status, filename |-> nav.filename, selected_labels |-> sel.labels]

\* a faulty delete_annotation that removes the slot, `del ann[idx]`, where the
\* code clears it.  SlotCorpusAlignment must reject it.
delete_annotation_removes_slot(idx, files, ann, io, file) ==
  IF files = <<>> \/ idx >= Len(files)
  THEN LET progress == get_annotation_status(ann)
       IN  [exc |-> "", status |-> Status("No file selected", <<>>, 0, 0), ann |-> ann,
            table |-> TableView("text", <<"No change">>),
            progress_txt |-> progress.txt, progress_val |-> progress.val,
            file |-> file, io |-> "none"]
  ELSE LET cleared == IF ann # <<>> /\ Len(ann) > idx
                      THEN SubSeq(ann, 1, idx) \o SubSeq(ann, idx + 2, Len(ann))
                      ELSE ann
           w == persist(cleared, io, file)
           progress == get_annotation_status(cleared)
           table == get_annotations_table(cleared)
       IN  [exc |-> table.exc,
            status |-> IF w.ok THEN Status("Deleted annotation", <<>>, 0, 0)
                       ELSE Status("Error deleting", <<>>, 0, 0),
            ann |-> cleared, table |-> TableView("rows", table.rows),
            progress_txt |-> progress.txt, progress_val |-> progress.val,
            file |-> w.file,
            io |-> IF w.ok THEN "ok" ELSE IF io = "ok" THEN "ValueError" ELSE io]

\* a faulty delete_annotation that returns early, without writing, when the
\* slot is already empty.  DeleteOnEmptySlotIdempotent must reject it.
delete_annotation_short_circuit(idx, files, ann, io, file) ==
  IF files = <<>> \/ idx >= Len(files)
  THEN LET progress == get_annotation_status(ann)
       IN  [exc |-> "", status |-> Status("No file selected", <<>>, 0, 0), ann |-> ann,
            table |-> TableView("text", <<"No change">>),
            progress_txt |-> progress.txt, progress_val |-> progress.val,
            file |-> file, io |-> "none"]
  ELSE IF ann # <<>> /\ Len(ann) > idx /\ ann[idx + 1] = Null
  THEN LET progress == get_annotation_status(ann)
           table == get_annotations_table(ann)
       IN  [exc |-> table.exc, status |-> Status("Deleted annotation", <<>>, 0, 0), ann |-> ann,
            table |-> TableView("rows", table.rows),
            progress_txt |-> progress.txt, progress_val |-> progress.val,
            file |-> file, io |-> "none"]
  ELSE LET cleared == IF ann # <<>> /\ Len(ann) > idx THEN [ann EXCEPT ![idx + 1] = Null] ELSE ann
           w == persist(cleared, io, file)
           progress == get_annotation_status(cleared)
           table == get_annotations_table(cleared)
       IN  [exc |-> table.exc,
            status |-> IF w.ok THEN Status("Deleted annotation", <<>>, 0, 0)
                       ELSE Status("Error deleting", <<>>, 0, 0),
            ann |-> cleared, table |-> TableView("rows", table.rows),
            progress_txt |-> progress.txt, progress_val |-> progress.val,
            file |-> w.file,
            io |-> IF w.ok THEN "ok" ELSE IF io = "ok" THEN "ValueError" ELSE io]

\* a faulty delete_annotation that clears every slot, `ann = [None] * len(ann)`.
\* ActionsKeepTheirFrame must reject it.
delete_annotation_clears_all(idx, files, ann, io, file) ==
  IF files = <<>> \/ idx >= Len(files)
  THEN LET progress == get_annotation_status(ann)
       IN  [exc |-> "", status |-> Status("No file selected", <<>>, 0, 0), ann |-> ann,
            table |-> TableView("text", <<"No change">>),
            progress_txt |-> progress.txt, progress_val |-> progress.val,
            file |-> file, io |-> "none"]
  ELSE LET cleared == [i \in 1..Len(ann) |-> Null]
           w == persist(cleared, io, file)
           progress == get_annotation_status(cleared)
           table == get_annotations_table(cleared)
       IN  [exc |-> table.exc,
            status |-> IF w.ok THEN Status("Deleted annotation", <<>>, 0, 0)
                       ELSE Status("Error deleting", <<>>, 0, 0),
            ann |-> cleared, table |-> TableView("rows", table.rows),
            progress_txt |-> progress.txt, progress_val |-> progress.val,
            file |-> w.file,
            io |-> IF w.ok THEN "ok" ELSE IF io = "ok" THEN "ValueError" ELSE io]

\* delete_annotation(idx, files, ann)
delete_annotation(idx, files, ann, io, file) ==
  IF files = <<>> \/ idx >= Len(files)
  THEN LET progress == get_annotation_status(ann)
       IN  [exc |-> "", status |-> Status("No file selected", <<>>, 0, 0), ann |-> ann,
            table |-> TableView("text", <<"No change">>),
            progress_txt |-> progress.txt, progress_val |-> progress.val,
            file |-> file, io |-> "none"]
  ELSE LET cleared == IF ann # <<>> /\ Len(ann) > idx THEN [ann EXCEPT ![idx + 1] = Null] ELSE ann
           w == persist(cleared, io, file)
           progress == get_annotation_status(cleared)
           table == get_annotations_table(cleared)
       IN  [exc |-> table.exc,
            status |-> IF w.ok THEN Status("Deleted annotation", <<>>, 0, 0)
                       ELSE Status("Error deleting", <<>>, 0, 0),
            ann |-> cleared, table |-> TableView("rows", table.rows),
            progress_txt |-> progress.txt, progress_val |-> progress.val,
            file |-> w.file,
            io |-> IF w.ok THEN "ok" ELSE IF io = "ok" THEN "ValueError" ELSE io]

\* export_annotations(ann)
export_annotations(ann, io, file) ==
  LET w == persist(ann, io, file)
  IN  [export_file |-> IF w.ok THEN Some(OUTPUT_CSV) ELSE Null,
       status |-> IF w.ok THEN Status("Exported CSV", <<>>, 0, 0)
                  ELSE Status("Error exporting", <<>>, 0, 0),
       file |-> w.file,
       io |-> IF w.ok THEN "ok" ELSE IF io = "ok" THEN "ValueError" ELSE io]

-----------------------------------------------------------------------------
(* The state *)

VARIABLES
  file_list,         \* gr.State: the corpus, a sequence of paths
  current_index,     \* gr.State: the cursor, 0-based
  annotations,       \* gr.State: the slots, Null or Some(dict)
  audio,             \* the audio component: Null or Some(path)
  file_status,       \* the "File Status" textbox
  progress_status,   \* the "Progress" textbox
  progress_bar,      \* the progress slider: the fraction <<annotated, total>>
  annotation_table,  \* the table component
  labels_component,  \* the checkbox group: the labels ticked
  export_file,       \* the download component: Null or Some(OUTPUT_CSV)
  csv_file,          \* annotations.csv on disk
  lastOp,            \* the last handler run on the session state: its name, the
                     \* exception that escaped it ("" if none), how its write ended
  saved,             \* history, kept when saved.on: the filename of the latest
                     \* Save that succeeded in this session, as a set; empty
                     \* before it, after a Delete on its slot and after a
                     \* failed write
  failures,          \* how many writes have failed
  other              \* a second browser session on the same server: its own
                     \* gr.State values and checkbox group, the same annotations.csv

vars == <<file_list, current_index, annotations, audio, file_status, progress_status,
          progress_bar, annotation_table, labels_component, export_file, csv_file,
          lastOp, saved, failures, disk, other>>

views == <<audio, file_status, progress_status, progress_bar, annotation_table>>

\* how many writes may fail in one run
MaxFailures == 1

History(on, names) == [on |-> on, names |-> IF on THEN names ELSE {}]

Op(op, exc, io) == [op |-> op, exc |-> exc, io |-> io]

\* a table an earlier session or another tool left behind: well formed, its
\* rows in no particular order, one of them for a file of no directory
EarlierTable ==
  csv_writerow(OUTPUT_CSV_FIELDS)
    \o csv_writerow(<<N_a_wav, <<"H", ",", " ", "S">> >>)
    \o csv_writerow(<<N_c_mp3, <<"H", ",", "S">> >>)
    \o csv_writerow(<<N_B_WAV, <<>> >>)

WellFormedFiles == {NoCsvFile, CsvFile(TRUE, TRUE, EarlierTable)}

RawLine(s) == s \o <<"LF">>
HeaderLine == RawLine(K_filename \o <<",">> \o K_labels)

\* tables that are badly shaped: a row with no labels field, a row with a
\* field too many, a header without the labels column, a header without the
\* filename column, and a file that does not decode
MalformedFiles ==
  { CsvFile(TRUE, TRUE, HeaderLine \o RawLine(N_a_wav)),
    CsvFile(TRUE, TRUE, HeaderLine \o RawLine(N_a_wav \o <<",", "H", ",", "x">>)),
    CsvFile(TRUE, TRUE, RawLine(K_filename) \o RawLine(N_a_wav)),
    CsvFile(TRUE, TRUE, RawLine(<<"n", ",">> \o K_labels) \o RawLine(N_a_wav \o <<",", "H">>)),
    CsvFile(TRUE, FALSE, <<>>) }

\* what a session holds: gr.State([]), gr.State(0), gr.State([]), nothing
\* ticked, and the last handler it ran
Session(files, index, ann, labels, op) ==
  [file_list |-> files, current_index |-> index, annotations |-> ann,
   labels_component |-> labels, lastOp |-> op]

InitSession ==
  /\ other = Session(<<>>, 0, <<>>, <<>>, Op("start", "", "none"))
  /\ file_list = <<>>
  /\ current_index = 0
  /\ annotations = <<>>
  /\ audio = Null
  /\ file_status = Status("", <<>>, 0, 0)
  /\ progress_status = NoProgress
  /\ progress_bar = <<0, 1>>
  /\ annotation_table = TableView("rows", <<>>)
  /\ labels_component = <<>>
  /\ export_file = Null
  /\ lastOp = Op("start", "", "none")
  /\ failures = 0

Init ==
  InitSession /\ csv_file \in WellFormedFiles /\ saved = History(FALSE, {}) /\ disk = PlainDisk

InitMalformed ==
  InitSession /\ csv_file \in MalformedFiles /\ saved = History(FALSE, {}) /\ disk = PlainDisk

InitHistory ==
  InitSession /\ csv_file \in WellFormedFiles /\ saved = History(TRUE, {}) /\ disk = PlainDisk

InitOddNames ==
  InitSession /\ csv_file \in WellFormedFiles /\ saved = History(FALSE, {}) /\ disk = OddDisk

InitFilePath ==
  InitSession /\ csv_file \in WellFormedFiles /\ saved = History(FALSE, {}) /\ disk = FileDisk

InitTwoSessions ==
  InitSession /\ csv_file = NoCsvFile /\ saved = History(TRUE, {}) /\ disk = PlainDisk

-----------------------------------------------------------------------------
(* The click handlers *)

\* the write of a handler may fail while the run has failures left
IoAllowed(io) == io = "ok" \/ failures < MaxFailures

Failed(io) == io \notin {"ok", "none"}

\* load_btn.click: handle_load(dir_input)
load_btn_click(dir_input) ==
  LET r == handle_load(dir_input, csv_file)
  IN  /\ lastOp' = Op("load", r.exc, "none")
      /\ IF r.exc # ""
         THEN UNCHANGED <<file_list, current_index, annotations, views>>
         ELSE /\ file_list' = r.files
              /\ current_index' = r.index
              /\ annotations' = r.annots
              /\ audio' = r.audio
              /\ file_status' = r.status
              /\ progress_status' = r.progress_txt
              /\ progress_bar' = r.progress_val
              /\ annotation_table' = TableView("rows", r.table)
      /\ UNCHANGED <<labels_component, export_file, csv_file, saved, failures, disk, other>>

\* the user ticks labels in the checkbox group
select_labels(labels) ==
  /\ labels_component' = labels
  /\ UNCHANGED <<file_list, current_index, annotations, views, export_file, csv_file,
                 lastOp, saved, failures, disk, other>>

\* load_labels_btn.click: update_label_choices resets the selection
load_labels_btn_click ==
  /\ labels_component' = <<>>
  /\ UNCHANGED <<file_list, current_index, annotations, views, export_file, csv_file,
                 lastOp, saved, failures, disk, other>>

\* save_btn.click: save_labels(labels_component, current_index, file_list, annotations)
save_btn_click(io) ==
  LET r == save_labels(labels_component, current_index, file_list, annotations, io, csv_file)
  IN  /\ IoAllowed(io)
      /\ lastOp' = Op("save", r.exc, r.io)
      /\ csv_file' = r.file
      /\ failures' = IF Failed(r.io) /\ io # "ok" THEN failures + 1 ELSE failures
      /\ saved' = IF r.io = "ok" THEN History(saved.on, {basename(file_list[current_index + 1])})
                  ELSE IF Failed(r.io) THEN History(saved.on, {})
                  ELSE saved
      /\ IF r.exc # ""
         THEN UNCHANGED <<annotations, file_status, progress_status, progress_bar, annotation_table>>
         ELSE /\ annotations' = r.updated_ann
              /\ file_status' = r.status
              /\ progress_status' = r.progress_txt
              /\ progress_bar' = r.progress_val
              /\ annotation_table' = TableView("rows", r.table)
      /\ UNCHANGED <<file_list, current_index, audio, labels_component, export_file, disk, other>>

\* button_prev.click and button_next.click: navigate(-1 or 1, ...)
nav_click(op, direction) ==
  LET r == navigate(direction, current_index, file_list, annotations)
  IN  /\ lastOp' = Op(op, r.exc, "none")
      /\ IF r.exc # ""
         THEN UNCHANGED <<current_index, audio, file_status, labels_component>>
         ELSE /\ current_index' = r.new_idx
              /\ audio' = r.audio_file
              /\ file_status' = r.status
              /\ labels_component' = r.selected_labels
      /\ UNCHANGED <<file_list, annotations, progress_status, progress_bar, annotation_table,
                     export_file, csv_file, saved, failures, disk, other>>

button_prev_click == nav_click("prev", -1)

button_next_click == nav_click("next", 1)

\* delete_btn.click: delete_annotation(current_index, file_list, annotations)
delete_btn_click(io) ==
  LET r == delete_annotation(current_index, file_list, annotations, io, csv_file)
  IN  /\ IoAllowed(io)
      /\ lastOp' = Op("delete", r.exc, r.io)
      /\ csv_file' = r.file
      /\ failures' = IF Failed(r.io) /\ io # "ok" THEN failures + 1 ELSE failures
      /\ saved' = IF r.io = "ok"
                  THEN History(saved.on, saved.names \ {basename(file_list[current_index + 1])})
                  ELSE IF Failed(r.io) THEN History(saved.on, {})
                  ELSE saved
      /\ IF r.exc # ""
         THEN UNCHANGED <<annotations, file_status, progress_status, progress_bar, annotation_table>>
         ELSE /\ annotations' = r.ann
              /\ file_status' = r.status
              /\ progress_status' = r.progress_txt
              /\ progress_bar' = r.progress_val
              /\ annotation_table' = r.table
      /\ UNCHANGED <<file_list, current_index, audio, labels_component, export_file, disk, other>>

\* export_btn.click: export_annotations(annotations)
export_btn_click(io) ==
  LET r == export_annotations(annotations, io, csv_file)
  IN  /\ IoAllowed(io)
      /\ lastOp' = Op("export", "", r.io)
      /\ csv_file' = r.file
      /\ failures' = IF Failed(r.io) /\ io # "ok" THEN failures + 1 ELSE failures
      /\ saved' = IF Failed(r.io) THEN History(saved.on, {}) ELSE saved
      /\ export_file' = r.export_file
      /\ file_status' = r.status
      /\ UNCHANGED <<file_list, current_index, annotations, audio, progress_status,
                     progress_bar, annotation_table, labels_component, disk, other>>

-----------------------------------------------------------------------------
(* The same handlers run by the second session: gradio keeps one copy of the
   gr.State values per session and runs the handlers of both sessions on the
   one annotations.csv of the working directory, with no lock *)

session_vars == <<file_list, current_index, annotations, views, labels_component,
                  export_file, lastOp, saved, failures, disk>>

\* load_btn.click in the second session
other_load_btn_click(dir_input) ==
  LET r == handle_load(dir_input, csv_file)
  IN  /\ other' = IF r.exc # ""
                  THEN [other EXCEPT !.lastOp = Op("load", r.exc, "none")]
                  ELSE Session(r.files, r.index, r.annots, other.labels_component,
                               Op("load", "", "none"))
      /\ UNCHANGED <<session_vars, csv_file>>

\* save_btn.click in the second session, its write going through
other_save_btn_click ==
  LET r == save_labels(other.labels_component, other.current_index, other.file_list,
                       other.annotations, "ok", csv_file)
  IN  /\ csv_file' = r.file
      /\ other' = IF r.exc # ""
                  THEN [other EXCEPT !.lastOp = Op("save", r.exc, r.io)]
                  ELSE [other EXCEPT !.annotations = r.updated_ann,
                                     !.lastOp = Op("save", "", r.io)]
      /\ UNCHANGED session_vars

\* button_next.click in the second session
other_button_next_click ==
  LET r == navigate(1, other.current_index, other.file_list, other.annotations)
  IN  /\ other' = IF r.exc # ""
                  THEN [other EXCEPT !.lastOp = Op("next", r.exc, "none")]
                  ELSE [other EXCEPT !.current_index = r.new_idx,
                                     !.labels_component = r.selected_labels,
                                     !.lastOp = Op("next", "", "none")]
      /\ UNCHANGED <<session_vars, csv_file>>

-----------------------------------------------------------------------------

Next ==
  \/ \E dir_input \in Paths : load_btn_click(dir_input)
  \/ \E labels \in Selections : select_labels(labels)
  \/ load_labels_btn_click
  \/ \E io \in IoOutcomes : save_btn_click(io)
  \/ button_prev_click
  \/ button_next_click
  \/ \E io \in IoOutcomes : delete_btn_click(io)
  \/ \E io \in IoOutcomes : export_btn_click(io)

Spec == Init /\ [][Next]_vars

SpecMalformed == InitMalformed /\ [][Next]_vars

SpecHistory == InitHistory /\ [][Next]_vars

SpecOddNames == InitOddNames /\ [][Next]_vars

SpecFilePath == InitFilePath /\ [][Next]_vars

\* how many directories the two sessions load
NumSharedPaths == 1

SharedPaths == {PathList[i] : i \in 1..(IF NumSharedPaths < Len(PathList) THEN NumSharedPaths ELSE Len(PathList))}

\* two sessions, their Loads, Saves and Nexts interleaved, every write going
\* through, nothing ticked in either
NextTwoSessions ==
  \/ \E dir_input \in SharedPaths : load_btn_click(dir_input)
  \/ save_btn_click("ok")
  \/ button_next_click
  \/ \E dir_input \in SharedPaths : other_load_btn_click(dir_input)
  \/ other_save_btn_click
  \/ other_button_next_click

SpecTwoSessions == InitTwoSessions /\ [][NextTwoSessions]_vars

-----------------------------------------------------------------------------
(* Properties *)

\* the positions of the slots that hold a record
NonEmptySlots(ann) == {i \in 1..Len(ann) : ann[i] # Null}

\* the rows a conforming CSV reader finds in a text: "\r\n" ends a row, a
\* carriage return inside a field stays what it is
RowsOf(text) ==
  LET kept == SelectSeq([i \in 1..Len(text) |-> i],
                        LAMBDA i : ~(text[i] = "CR" /\ i < Len(text) /\ text[i + 1] = "LF"))
  IN  csv_parse([k \in 1..Len(kept) |-> text[kept[k]]], "START_RECORD", <<>>, <<>>, <<>>)

\* the pairs <<filename, labels>> of the non-empty slots, in slot order
SlotRows(ann) ==
  LET kept == SelectSeq(ann, LAMBDA a : a # Null)
  IN  [i \in 1..Len(kept) |-> <<Val(Val(kept[i]).filename), Val(Val(kept[i]).labels)>>]

\* C1: in every reachable state the slot array is as long as the corpus, and
\* every non-empty slot i holds a record whose filename is basename(corpus[i]).
SlotCorpusAlignment ==
  /\ Len(annotations) = Len(file_list)
  /\ \A i \in NonEmptySlots(annotations) :
       Val(annotations[i]).filename = Some(basename(file_list[i]))

\* C1 happens: a corpus of two files after a Save on the second, the first
\* slot still empty
SlotCorpusAlignmentWitness ==
  /\ Len(file_list) = 2
  /\ lastOp = Op("save", "", "ok")
  /\ current_index = 1
  /\ NonEmptySlots(annotations) = {2}

CursorInBounds == file_list # <<>> => current_index \in 0..(Len(file_list) - 1)

\* C2: with a non-empty corpus the cursor stays in 0..len(corpus)-1 whatever the
\* handlers do; Next at the last index and Previous at index 0 leave the
\* cursor where it is and raise nothing.
NavigationSaturates ==
  [][ /\ CursorInBounds
      /\ CursorInBounds'
      /\ (button_next_click /\ file_list # <<>> /\ current_index = Len(file_list) - 1
            => current_index' = current_index /\ lastOp'.exc = "")
      /\ (button_prev_click /\ file_list # <<>> /\ current_index = 0
            => current_index' = current_index /\ lastOp'.exc = "") ]_vars

\* C2 happens: Next on a corpus of one file, where index 0 is the last index
NavigationSaturatesWitness ==
  /\ Len(file_list) = 1
  /\ lastOp = Op("next", "", "none")
  /\ current_index = 0
  /\ file_status = Status("File", <<>>, 1, 1)

\* C3: after a Save, Delete or Export that succeeded, annotations.csv holds
\* the header and then exactly one row <<filename, labels>> for each non-empty
\* slot of the slot array, in slot order, and no row for an empty slot.
PersistedTableReflectsSlots ==
  lastOp.op \in {"save", "delete", "export"} /\ lastOp.exc = "" /\ lastOp.io = "ok"
    => /\ csv_file.exists
       /\ RowsOf(csv_file.text) = <<OUTPUT_CSV_FIELDS>> \o SlotRows(annotations)

\* C3 happens: a Delete succeeded and left one slot empty beside a non-empty one
PersistedTableReflectsSlotsWitness ==
  /\ lastOp = Op("delete", "", "ok")
  /\ Len(annotations) = 2
  /\ Cardinality(NonEmptySlots(annotations)) = 1
  /\ Len(RowsOf(csv_file.text)) = 2

\* the rows of annotations.csv as the program reads them
PersistedRows ==
  IF csv_file.exists /\ csv_file.readable THEN DictReader(csv_file.text) ELSE <<>>

RowsNamed(name) == SelectSeq(PersistedRows, LAMBDA r : r.filename = Some(name))

MatchedSlots == {i \in 1..Len(file_list) : RowsNamed(basename(file_list[i])) # <<>>}

\* C4: after a Load that found files, slot i holds the row of annotations.csv
\* whose filename is basename(corpus[i]) if there is one (the last one, should
\* there be several) and is empty otherwise, wherever the row stands in the
\* table; the progress shown is the number of matched slots over len(corpus).
LoadMergesByFilename ==
  lastOp = Op("load", "", "none") /\ file_list # <<>>
    => /\ Len(annotations) = Len(file_list)
       /\ \A i \in 1..Len(file_list) :
            LET rows == RowsNamed(basename(file_list[i]))
            IN  annotations[i] = IF rows # <<>> THEN Some(rows[Len(rows)]) ELSE Null
       /\ progress_status.kind = "Progress"
       /\ progress_status.annotated = Cardinality(MatchedSlots)
       /\ progress_status.total = Len(file_list)
       /\ progress_bar = <<Cardinality(MatchedSlots), Len(file_list)>>

\* C4 happens: a Load of two files when the table's only data row is for the
\* second of them
LoadMergesByFilenameWitness ==
  /\ lastOp = Op("load", "", "none")
  /\ Len(file_list) = 2
  /\ Len(PersistedRows) = 1
  /\ NonEmptySlots(annotations) = {2}
  /\ progress_bar = <<1, 2>>

\* C5: writing the slot array to the table, reading the table back and merging
\* it against the same corpus gives the slot array again: the same record in
\* every non-empty slot, nothing in every empty one.
PersistenceRoundTrip ==
  LET w == write_table(annotations)
  IN  init_annotations(file_list, load_existing_annotations(CsvFile(TRUE, TRUE, w.text)))
        = annotations

\* C6: the row of the file whose Save succeeded last is in annotations.csv for
\* as long as no Save or Delete has been aimed at that file since and no
\* write has failed.
SavedRowsSurvive ==
  \A f \in saved.names :
    LET rows == RowsOf(csv_file.text)
    IN  \E k \in 2..Len(rows) : Len(rows[k]) = 2 /\ rows[k][1] = f

\* C7: a Save with nothing ticked, at a valid index i, puts into slot i a
\* record whose labels are empty; the slot is not an unset slot: the progress
\* counts it and, when the write succeeds, the table has its row.
SaveWithEmptySelection ==
  [][ \A io \in IoOutcomes :
        save_btn_click(io) /\ labels_component = <<>>
          /\ file_list # <<>> /\ current_index < Len(file_list)
        => LET i == current_index + 1
               name == basename(file_list[i])
               annotated == Cardinality(NonEmptySlots(annotations'))
               rows == RowsOf(csv_file'.text)
           IN  /\ lastOp'.exc = ""
               /\ annotations'[i] # Null
               /\ annotations'[i] = Some(MakeDict({"filename", "labels"}, Some(name), Some(<<>>)))
               /\ progress_status'.annotated = annotated
               /\ annotated = Cardinality(NonEmptySlots(annotations) \cup {i})
               /\ progress_bar' = <<annotated, Len(file_list)>>
               /\ (lastOp'.io = "ok" => \E k \in 2..Len(rows) : rows[k] = <<name, <<>> >>)
    ]_vars

\* C7 happens: a Save that succeeded has left empty labels in the slot under
\* the cursor, the only non-empty slot of two
SaveWithEmptySelectionWitness ==
  /\ lastOp = Op("save", "", "ok")
  /\ Len(file_list) = 2
  /\ NonEmptySlots(annotations) = {current_index + 1}
  /\ Val(annotations[current_index + 1]).labels = Some(<<>>)
  /\ progress_bar = <<1, 2>>

\* C8: a Delete whose write goes through, at a valid index whose slot is
\* already empty, succeeds, leaves the slot array as it was and still writes
\* the table from the slots; run right after such a Delete it leaves the
\* table as that Delete left it.
DeleteOnEmptySlotIdempotent ==
  [][ delete_btn_click("ok") /\ file_list # <<>> /\ current_index < Len(file_list)
        /\ annotations[current_index + 1] = Null
      => /\ lastOp' = Op("delete", "", "ok")
         /\ file_status'.kind = "Deleted annotation"
         /\ annotations' = annotations
         /\ csv_file'.exists
         /\ RowsOf(csv_file'.text) = <<OUTPUT_CSV_FIELDS>> \o SlotRows(annotations)
         /\ (lastOp = Op("delete", "", "ok") => csv_file' = csv_file)
    ]_vars

\* C8 happens: a Delete has succeeded on a corpus that has no annotation, and
\* the table it wrote holds the header alone
DeleteOnEmptySlotIdempotentWitness ==
  /\ lastOp = Op("delete", "", "ok")
  /\ file_list # <<>>
  /\ NonEmptySlots(annotations) = {}
  /\ csv_file = CsvFile(TRUE, TRUE, csv_writerow(OUTPUT_CSV_FIELDS))
  /\ export_file = Null

\* C9: the progress of the slot array is well defined: annotated is the
\* number of non-empty slots, total is len(slots), 0 <= annotated <= total;
\* the fraction is 0 for an empty corpus and is 1 exactly when the corpus is
\* non-empty and every slot is non-empty; it is what the progress views show
\* once a handler has written them.
ProgressWellDefined ==
  LET p == get_annotation_status(annotations)
      n == Cardinality(NonEmptySlots(annotations))
      total == Len(annotations)
  IN  /\ p.txt.annotated = n
      /\ p.txt.total = total
      /\ 0 <= n /\ n <= total
      /\ p.val[2] # 0
      /\ p.val[1] * (IF total = 0 THEN 1 ELSE total) = n * p.val[2]
      /\ (file_list = <<>> => p.val[1] = 0)
      /\ (p.val[1] = p.val[2] <=> file_list # <<>> /\ n = total)
      /\ (progress_status # NoProgress => progress_status = p.txt /\ progress_bar = p.val)

\* C9 happens: both slots of a corpus of two are non-empty
ProgressWellDefinedWitness ==
  /\ Len(file_list) = 2
  /\ NonEmptySlots(annotations) = {1, 2}
  /\ progress_bar = <<2, 2>>
  /\ progress_status.tenths = 1000

\* C10: while annotations.csv is a badly shaped or unreadable table, a Load
\* ends without an exception, with every slot empty and the cursor at 0, and
\* what it read from the table is the empty mapping; the Saves and Deletes
\* that follow, their file opened and written, succeed.
MalformedTableNeverBlocksLoad ==
  /\ (csv_file \in MalformedFiles /\ lastOp.op = "load"
        => /\ lastOp.exc = ""
           /\ NonEmptySlots(annotations) = {}
           /\ current_index = 0
           /\ (file_list # <<>> => load_existing_annotations(csv_file) = <<>>))
  /\ (lastOp.op \in {"save", "delete"} /\ lastOp.io \in {"ok", "ValueError"}
        => lastOp.exc = "" /\ lastOp.io = "ok")

\* the write outcomes in which annotations.csv cannot be opened or written
WriteFailures == IoOutcomes \ {"ok"}

ValidIndex == file_list # <<>> /\ current_index < Len(file_list)

\* C11: a Save or Delete whose write fails reports the failure in the status,
\* leaves the cursor where it was and hands back the slots with the change
\* it attempted, not the slots it was given; repeating the action with the
\* write going through leaves the slots as they are and makes the table the
\* rows of the slots.
WriteFailureKeepsMutation ==
  [][ /\ \A io \in WriteFailures :
           save_btn_click(io) /\ ValidIndex
           => /\ file_status'.kind = "Error saving"
              /\ current_index' = current_index
              /\ annotations' = [annotations EXCEPT ![current_index + 1] =
                    Some(MakeDict({"filename", "labels"},
                                  Some(basename(file_list[current_index + 1])),
                                  Some(join_labels(labels_component))))]
      /\ \A io \in WriteFailures :
           delete_btn_click(io) /\ ValidIndex
           => /\ file_status'.kind = "Error deleting"
              /\ current_index' = current_index
              /\ annotations' = [annotations EXCEPT ![current_index + 1] = Null]
      /\ (lastOp.op \in {"save", "delete"} /\ lastOp.io \in WriteFailures /\ ValidIndex
            /\ (\/ lastOp.op = "save" /\ save_btn_click("ok") /\ annotations' = annotations
                \/ lastOp.op = "delete" /\ delete_btn_click("ok"))
          => /\ annotations' = annotations
             /\ file_status'.kind \in {"Saved", "Deleted annotation"}
             /\ RowsOf(csv_file'.text) = <<OUTPUT_CSV_FIELDS>> \o SlotRows(annotations))
    ]_vars

\* C11 happens: a Save has failed after truncating the file; the status says
\* so, the slot under the cursor holds the record and the table is empty
WriteFailureKeepsMutationWitness ==
  /\ lastOp = Op("save", "", "write_failed")
  /\ file_status.kind = "Error saving"
  /\ NonEmptySlots(annotations) = {current_index + 1}
  /\ csv_file.text = <<>>

\* C12: a Save or Delete run with an index outside 0..len(slots)-1 ends in an
\* IndexError, not in a status with the state left as it was.
OutOfRangeIndexFailsLoudly ==
  lastOp.op \in {"save", "delete"} /\ current_index \notin 0..(Len(annotations) - 1)
    => lastOp.exc = "IndexError"

\* the audio files a directory path names, in corpus order, told from the disk
\* alone
AudioFilesAt(path) ==
  IF path \in DOMAIN disk
  THEN Sorted({path_join(path, f) : f \in {g \in disk[path].names :
                 \E ext \in AUDIO_EXTENSIONS : EndsWith(Lower(g), ext)}})
  ELSE <<>>

\* C13: every Load, whatever the corpus, the slots and the cursor were, ends
\* without an exception with the cursor at 0, the corpus the audio files of
\* the directory named and the slots built from the table alone; a Load that
\* finds no file gives the empty corpus, no slots, no current file and zero
\* progress; no Load writes annotations.csv.
LoadResetsSession ==
  [][ \A dir_input \in Paths :
        load_btn_click(dir_input)
        => /\ lastOp'.exc = ""
           /\ current_index' = 0
           /\ csv_file' = csv_file
           /\ file_list' = AudioFilesAt(Strip(dir_input))
           /\ Len(annotations') = Len(file_list')
           /\ \A i \in 1..Len(file_list') :
                LET rows == RowsNamed(basename(file_list'[i]))
                IN  annotations'[i] = IF rows # <<>> THEN Some(rows[Len(rows)]) ELSE Null
           /\ (file_list' = <<>>
                 => /\ annotations' = <<>>
                    /\ audio' = Null
                    /\ progress_bar' = <<0, 1>>
                    /\ progress_status'.annotated = 0 /\ progress_status'.total = 0
                    /\ annotation_table' = TableView("rows", <<>>))
    ]_vars

\* C14: an Export that succeeds hands back annotations.csv holding the rows
\* it held just before the Export, in every state, before any Load and after
\* a Load that found no files included.
ExportExposesPersistedTable ==
  [][ export_btn_click("ok") /\ csv_file.exists
      => /\ export_file' = Some(OUTPUT_CSV)
         /\ RowsOf(csv_file'.text) = RowsOf(csv_file.text) ]_vars

\* the slots other than the one under the cursor are what they were
OtherSlotsKept ==
  /\ Len(annotations') = Len(annotations)
  /\ \A j \in 1..Len(annotations) : j # current_index + 1 => annotations'[j] = annotations[j]

\* C15: a Save or a Delete at index i changes no slot but i and leaves cursor
\* and corpus alone; Previous and Next leave corpus, slots and table alone;
\* Export leaves cursor, corpus and slots alone.
ActionsKeepTheirFrame ==
  [][ /\ \A io \in IoOutcomes :
           save_btn_click(io) \/ delete_btn_click(io)
           => OtherSlotsKept /\ current_index' = current_index /\ file_list' = file_list
      /\ (button_prev_click \/ button_next_click
            => annotations' = annotations /\ csv_file' = csv_file /\ file_list' = file_list)
      /\ \A io \in IoOutcomes :
           export_btn_click(io)
           => current_index' = current_index /\ annotations' = annotations
                /\ file_list' = file_list
    ]_vars

\* C15 happens: a Delete has emptied the slot under the cursor and the other
\* slot of the corpus still holds its record
ActionsKeepTheirFrameWitness ==
  /\ lastOp = Op("delete", "", "ok")
  /\ Len(file_list) = 2
  /\ annotations[current_index + 1] = Null
  /\ Cardinality(NonEmptySlots(annotations)) = 1
  /\ file_status.kind = "Deleted annotation"

\* the rows of the non-empty slots, in slot order, as the table shows them
ShownRows(ann) ==
  LET kept == SelectSeq(ann, LAMBDA a : a # Null)
  IN  [i \in 1..Len(kept) |-> <<Val(kept[i]).filename, Val(kept[i]).labels>>]

\* C16: after every Load, Save and Delete that returns, on an empty corpus or
\* with nothing to delete included, the table view is the ordered list of the
\* non-empty slots and the progress views are the progress of the slots.
ViewsFollowSlots ==
  lastOp.op \in {"load", "save", "delete"} /\ lastOp.exc = ""
  => /\ annotation_table = TableView("rows", ShownRows(annotations))
     /\ progress_status = get_annotation_status(annotations).txt
     /\ progress_bar = get_annotation_status(annotations).val

\* C17: once a Save has stored the selection in the slot under the cursor,
\* every Previous or Next that lands on that slot reports exactly the sequence
\* saved: same labels, same order, duplicates kept, whatever the label strings.
NavigateReportsSavedLabels ==
  [][ \A io \in IoOutcomes :
        save_btn_click(io) /\ file_list # <<>> /\ current_index < Len(file_list)
        => \A direction \in {-1, 1} : \A from \in 0..(Len(file_list) - 1) :
             LET r == navigate(direction, from, file_list, annotations')
             IN  r.new_idx = current_index => r.exc = "" /\ r.selected_labels = labels_component
    ]_vars

\* the labels recorded in a slot, as a sequence; none for an unset slot
RecordedLabels(slot) ==
  IF slot = Null THEN <<>> ELSE split_labels(Val(Val(slot).labels))

\* C18: after a Load that finds files the selected-labels view holds the
\* labels recorded for slot 0, and is empty if slot 0 is unset.
LoadShowsFirstSlotLabels ==
  [][ \A dir_input \in Paths :
        load_btn_click(dir_input) /\ lastOp'.exc = "" /\ file_list' # <<>>
        => labels_component' = RecordedLabels(annotations'[1])
    ]_vars

\* the filenames a slot array holds
SlotNames(ann) == {Val(Val(ann[i]).filename) : i \in NonEmptySlots(ann)}

\* the filenames of the data rows of annotations.csv
TableNames ==
  LET rows == RowsOf(csv_file.text)
  IN  {rows[k][1] : k \in 2..Len(rows)}

\* C19: two sessions share annotations.csv with no lock, and each Save
\* rewrites the whole table from the slots of the session that saves: after a
\* Save by either session the table holds that session's slots and nothing
\* else, so a row the first session saved is gone as soon as the second
\* session saves from slots that do not hold it.
SessionsOverwriteEachOther ==
  [][ /\ (save_btn_click("ok") /\ lastOp'.io = "ok"
            => RowsOf(csv_file'.text) = <<OUTPUT_CSV_FIELDS>> \o SlotRows(annotations'))
      /\ (other_save_btn_click /\ other'.lastOp.io = "ok"
            => /\ RowsOf(csv_file'.text) = <<OUTPUT_CSV_FIELDS>> \o SlotRows(other'.annotations)
               /\ \A f \in saved.names \ SlotNames(other'.annotations) : f \notin TableNames')
    ]_vars

\* C19 happens: both sessions are on the same corpus, the first session's Save
\* succeeded and its slots still hold the row, the second session's Save
\* succeeded after it, and the row is not in the table
SessionsOverwriteEachOtherWitness ==
  /\ lastOp = Op("save", "", "ok")
  /\ other.lastOp = Op("save", "", "ok")
  /\ other.file_list = file_list
  /\ saved.names # {}
  /\ saved.names \subseteq SlotNames(annotations)
  /\ saved.names \cap TableNames = {}

=============================================================================
